---- MODULE Spec2Model ----
(***************************************************************************)
(* Model of start-odoo.py: the command line parser, the launch path of     *)
(* main() (drop-db, branch check, db flavor check, argument assembly,      *)
(* server start), the status command and the git tooling                   *)
(* (clean-branches, list-branches).                                        *)
(*                                                                         *)
(* Strings are sequences of atoms: an atom is a piece of text that the     *)
(* program never splits (a word, a blank, a colour escape).  Concatenation *)
(* is \o and "x in s" for a word x is membership of an atom.               *)
(*                                                                         *)
(* External tools (git, psql, dropdb, the prompt, the launched server) are *)
(* the environment: what they return is chosen when they are called.       *)
(***************************************************************************)
EXTENDS Integers, Sequences, FiniteSets, TLC

VARIABLES
    argv,              \* sys.argv[1:]
    pc,                \* position of the script
    config,            \* namespace returned by parse_args()
    local_odoo_args,   \* local odoo_args of parse_args(), lost at its return
    odoo_args,         \* module global odoo_args, the name main() reads
    community_branch,  \* local of main()
    enterprise_branch, \* local of main()
    db_version,        \* value returned by get_db_version() in main()
    calls,             \* external commands/prompts performed so far, in order
    out,               \* lines printed so far
    arg_string,        \* parameter args of start_odoo(), <<>> outside of it
    child_exit,        \* exit status of the launched process, -1 before
    exit_code,         \* exit status of the script, -1 while running
    ending,            \* how the run ended, "" while running
    repos,             \* branches of the two git checkouts
    branches,          \* dict built by get_git_branches()
    idx                \* position of the loop over branches.items()

vars == <<argv, pc, config, local_odoo_args, odoo_args, community_branch, enterprise_branch,
          db_version, calls, out, arg_string, child_exit, exit_code, ending,
          repos, branches, idx>>

\* Bounds of the model
MaxArgs == 4
MaxBranches == 2
MaxChildExit == 2

\* ------------------------------------------------------------------------
\* Constants of the script
\* ------------------------------------------------------------------------
DB_NAME == "testdb"
DB_USER == "odoo"
DB_PASSWORD == "odoo"
ODOO_BIN_CMD == "source env15/bin/activate;cd community;./odoo-bin"

COLOR_MAP == [red |-> "91", cyan |-> "96", yellow |-> "93"]

\* color(string, col): the string wrapped in the ansi colour code
color(string, col) == <<"\\033[", COLOR_MAP[col], "m">> \o string \o <<"\\033[00m">>

\* ------------------------------------------------------------------------
\* String helpers
\* ------------------------------------------------------------------------
RECURSIVE Join(_, _)
\* sep.join(words)
Join(words, sep) ==
    IF words = <<>> THEN <<>>
    ELSE IF Len(words) = 1 THEN <<words[1]>>
    ELSE <<words[1], sep>> \o Join(Tail(words), sep)

\* s[:n] of python, for n >= 0
Take(s, n) == SubSeq(s, 1, IF n < Len(s) THEN n ELSE Len(s))
\* s[n:] of python, for n >= 0
Drop(s, n) == SubSeq(s, n + 1, Len(s))

Contains(s, atom) == \E i \in 1..Len(s) : s[i] = atom

\* ------------------------------------------------------------------------
\* parse_args
\* ------------------------------------------------------------------------
\* command line tokens of the model: the flags of the script, the
\* separator, and an option the script does not declare
Flags == {"-e", "-t", "-d", "-w", "-s", "-l", "--clean-branches"}
Tokens == Flags \cup {"--", "--test-enable"}

RECURSIVE SplitLoop(_, _, _, _)
\* the loop "for i, val in enumerate(args)": it walks the list it was
\* started on (orig) while args and odoo_args are rebound inside
SplitLoop(orig, i, args, oargs) ==
    IF i > Len(orig) THEN [args |-> args, odoo_args |-> oargs]
    ELSE IF orig[i] = "--"
         THEN SplitLoop(orig, i + 1, Take(args, i - 1), Drop(args, i))
         ELSE SplitLoop(orig, i + 1, args, oargs)

SplitArgs(a) == SplitLoop(a, 1, a, <<>>)

\* argparse: every token must be a declared option, else usage error
ArgparseOk(args) == \A i \in 1..Len(args) : args[i] \in Flags

ParseNamespace(args) ==
    [enterprise     |-> Contains(args, "-e"),
     test           |-> Contains(args, "-t"),
     drop_db        |-> Contains(args, "-d"),
     clean_branches |-> Contains(args, "--clean-branches"),
     list_branches  |-> Contains(args, "-l"),
     web            |-> Contains(args, "-w"),
     status         |-> Contains(args, "-s")]

NoConfig == ParseNamespace(<<>>)

\* variant of Dispatch: the drop-db request is served before the status
\* request is looked at
DispatchDropFirst(cfg) ==
    IF cfg.drop_db THEN "drop"
    ELSE IF cfg.status THEN "status"
    ELSE IF cfg.clean_branches THEN "clean"
    ELSE IF cfg.list_branches THEN "list"
    ELSE "drop"

\* the chain of "if config.x: ...; quit()" at the head of main()
Dispatch(cfg) ==
    IF cfg.status THEN "status"
    ELSE IF cfg.clean_branches THEN "clean"
    ELSE IF cfg.list_branches THEN "list"
    ELSE "drop"

\* ------------------------------------------------------------------------
\* Environment: what the external tools can answer
\* ------------------------------------------------------------------------
\* branch names, in the order "git branch" lists them
BranchPool == <<"15.0", "master", "task-a", "task-b", "task-c">>
Names == {BranchPool[i] : i \in 1..MaxBranches}
\* "git branch --show-current" prints nothing on a detached HEAD
BranchObservations == Names \cup {""}

\* what is typed at a prompt
Answers == {"y", "Y", "n", ""}

\* psql: the two queries of get_db_version.  reachable = FALSE: psql exits
\* with an error (check=True raises); latest_version: the dotted version
\* of module base, as its components; one_row: the second query prints
\* "(1 row)"
DbObservations ==
    {[reachable |-> FALSE, latest_version |-> <<>>, one_row |-> FALSE],
     [reachable |-> TRUE, latest_version |-> <<"17", "0", "1", "3">>, one_row |-> FALSE],
     [reachable |-> TRUE, latest_version |-> <<"17", "0", "1", "3">>, one_row |-> TRUE]}

ChildExitCodes == 0..MaxChildExit

\* ------------------------------------------------------------------------
\* read_git_branch, get_db_version
\* ------------------------------------------------------------------------
\* read_git_branch(cwd, with_status): name is the output of
\* "git branch --show-current", is_dirty: "git status --porcelain" != ""
read_git_branch(name, with_status, is_dirty) ==
    IF with_status /\ is_dirty THEN <<name, " (*)">> ELSE <<name>>

\* get_db_version(): "?" when a query raises
get_db_version(obs) ==
    IF ~obs.reachable THEN <<"?">>
    ELSE LET v == Join(Take(obs.latest_version, 2), ".")
         IN  IF obs.one_row THEN v \o <<" (enterprise)">> ELSE v

\* commands get_db_version runs
DbCalls(obs) ==
    IF ~obs.reachable THEN << <<"psql", "version_query", DB_NAME>> >>
    ELSE << <<"psql", "version_query", DB_NAME>>,
            <<"psql", "enterprise_query", DB_NAME>> >>

\* "enterprise" in s
HasEnterprise(s) == \E i \in 1..Len(s) : s[i] \in {"enterprise", " (enterprise)"}

\* ------------------------------------------------------------------------
\* main(): the launch path
\* ------------------------------------------------------------------------
\* variant of should_stop: the answer is compared with "N"
ShouldStopUpperCase(answer) == answer = "N"

\* input(...) == "n"
should_stop(answer) == answer = "n"

\* the condition of the db flavor check
FlavorMismatch(cfg, version) ==
    ~cfg.drop_db /\ HasEnterprise(version) # cfg.enterprise

FlavorMessage(version) ==
    IF HasEnterprise(version)
    THEN <<"Error: no enterprise addons requested, but current db is enterprise">>
    ELSE <<"Error: enterprise addons requested, but current db is not enterprise">>

addons_path(cfg) == IF cfg.enterprise THEN "addons,../enterprise" ELSE "addons"

base_args(cfg) ==
    <<"-r", " ", DB_USER, " ", "-w", " ", DB_PASSWORD, " ", "-d", " ", DB_NAME, " ",
      "--db-filter=", DB_NAME, " ", "--dev=all", " ", "--addons-path", " ",
      addons_path(cfg), " ">>

test_args(cfg) ==
    <<" ", "--test-enable", " ", "--stop-after-init", " ">>
      \o (IF cfg.web THEN <<"--test-tags", " ", "/web:WebSuite", " ">> ELSE <<>>)

\* the string main() hands to start_odoo()
ArgString(cfg, oargs) ==
    IF cfg.test
    THEN base_args(cfg) \o test_args(cfg) \o Join(oargs, " ")
    ELSE base_args(cfg) \o <<" ">> \o Join(oargs, " ")

\* the script ends: quit() and a normal return exit 0, an uncaught
\* exception exits 1, an argparse usage error exits 2
Finish(how, code) ==
    /\ pc' = "done"
    /\ ending' = how
    /\ exit_code' = code

ParseArgs ==
    /\ pc = "start"
    /\ LET sp == SplitArgs(argv)
       IN  IF ArgparseOk(sp.args)
           THEN /\ config' = ParseNamespace(sp.args)
                /\ local_odoo_args' = sp.odoo_args
                /\ pc' = Dispatch(config')
                /\ UNCHANGED <<ending, exit_code>>
           ELSE /\ Finish("usage_error", 2)
                /\ local_odoo_args' = sp.odoo_args
                /\ UNCHANGED config
    /\ UNCHANGED <<argv, odoo_args, community_branch, enterprise_branch, db_version, calls,
                   out, arg_string, child_exit, repos, branches, idx>>

ShowStatus ==
    /\ pc = "status"
    /\ \E cb \in BranchObservations, eb \in BranchObservations,
          cd \in BOOLEAN, ed \in BOOLEAN, obs \in DbObservations :
         /\ calls' = calls \o
               << <<"python", "import release", "community/odoo">>,
                  <<"git", "branch --show-current", "community">>,
                  <<"git", "status --porcelain", "community">>,
                  <<"git", "branch --show-current", "enterprise">>,
                  <<"git", "status --porcelain", "enterprise">> >>
               \o DbCalls(obs)
         /\ out' = out \o
               << <<"Odoo server:", "release.version">>,
                  <<DB_NAME, " version:">> \o get_db_version(obs),
                  <<"Community branch:">> \o read_git_branch(cb, TRUE, cd),
                  <<"Enterprise branch:">> \o read_git_branch(eb, TRUE, ed) >>
    /\ Finish("status", 0)
    /\ UNCHANGED <<argv, config, local_odoo_args, odoo_args, community_branch, enterprise_branch,
                   db_version, arg_string, child_exit, repos, branches, idx>>

DropDb ==
    /\ pc = "drop"
    /\ IF config.drop_db
       THEN \E ok \in BOOLEAN :
              /\ calls' = Append(calls, <<"dropdb", DB_NAME, "./">>)
              /\ IF ok
                 THEN /\ pc' = "branch_check"
                      /\ config' = [config EXCEPT !.test = config.test \/ config.web]
                      /\ UNCHANGED <<ending, exit_code>>
                 ELSE /\ Finish("drop_failed", 1)
                      /\ UNCHANGED config
       ELSE /\ pc' = "branch_check"
            /\ config' = [config EXCEPT !.test = config.test \/ config.web]
            /\ UNCHANGED <<calls, ending, exit_code>>
    /\ UNCHANGED <<argv, local_odoo_args, odoo_args, community_branch,
                   enterprise_branch, db_version, out, arg_string, child_exit, repos, branches, idx>>

BranchCheck ==
    /\ pc = "branch_check"
    /\ IF config.enterprise
       THEN \E cb \in BranchObservations, eb \in BranchObservations :
              /\ community_branch' = read_git_branch(cb, FALSE, FALSE)
              /\ enterprise_branch' = read_git_branch(eb, FALSE, FALSE)
              /\ LET reads == << <<"git", "branch --show-current", "community">>,
                                 <<"git", "branch --show-current", "enterprise">> >>
                 IN  IF community_branch' # enterprise_branch'
                     THEN \E answer \in Answers :
                            /\ out' = Append(out,
                                  color(<<"Warning:">>, "yellow")
                                  \o <<" ", "community and enterprise branches do not match:", " ">>
                                  \o color(community_branch', "cyan") \o <<" ", "!=", " ">>
                                  \o color(enterprise_branch', "cyan"))
                            /\ calls' = calls \o reads \o
                                  << <<"input", "do you want to continue? (Y/n) ", answer>> >>
                            /\ IF should_stop(answer)
                               THEN Finish("user_cancel", 0)
                               ELSE /\ pc' = "flavor_check"
                                    /\ UNCHANGED <<ending, exit_code>>
                     ELSE /\ calls' = calls \o reads
                          /\ pc' = "flavor_check"
                          /\ UNCHANGED <<out, ending, exit_code>>
       ELSE /\ pc' = "flavor_check"
            /\ UNCHANGED <<community_branch, enterprise_branch, calls, out,
                           ending, exit_code>>
    /\ UNCHANGED <<argv, config, local_odoo_args, odoo_args, db_version, arg_string, child_exit,
                   repos, branches, idx>>

FlavorCheck ==
    /\ pc = "flavor_check"
    /\ \E obs \in DbObservations :
         /\ db_version' = get_db_version(obs)
         /\ calls' = calls \o DbCalls(obs)
    /\ IF FlavorMismatch(config, db_version')
       THEN /\ out' = Append(out, color(FlavorMessage(db_version'), "red"))
            /\ Finish("flavor_error", 0)
       ELSE /\ pc' = "start_odoo"
            /\ UNCHANGED <<out, ending, exit_code>>
    /\ UNCHANGED <<argv, config, local_odoo_args, odoo_args, community_branch, enterprise_branch,
                   arg_string, child_exit, repos, branches, idx>>

\* lines 241-250 of main(): the argument string is put together and
\* start_odoo is called with it.  odoo_args is read as a module global;
\* when no such global is bound the read raises NameError, before the call
AssembleArgs ==
    /\ pc = "start_odoo"
    /\ IF odoo_args.bound
       THEN /\ arg_string' = ArgString(config, odoo_args.value)
            /\ pc' = "in_start_odoo"
            /\ UNCHANGED <<ending, exit_code>>
       ELSE /\ Finish("name_error", 1)
            /\ UNCHANGED arg_string
    /\ UNCHANGED <<argv, config, local_odoo_args, odoo_args, community_branch,
                   enterprise_branch, db_version, calls, out, child_exit, repos,
                   branches, idx>>

\* start_odoo(args) and the return of main() after it: the status of the
\* launched process is the value of subprocess.call, which is dropped
StartOdoo ==
    /\ pc = "in_start_odoo"
    /\ calls' = Append(calls, <<"bash", ODOO_BIN_CMD, "./">>)
    /\ \E status \in ChildExitCodes : child_exit' = status
    /\ Finish("launched", 0)
    /\ UNCHANGED <<argv, config, local_odoo_args, odoo_args, community_branch,
                   enterprise_branch, db_version, out, arg_string, repos,
                   branches, idx>>

\* ------------------------------------------------------------------------
\* Git tooling (clean-branches, list-branches)
\* ------------------------------------------------------------------------
Repos == {"community", "enterprise"}

\* first line of "git branch" on a detached HEAD, without its "* "
DetachedHead == "(HEAD detached at 1a2b3c4)"

\* a checkout: its branches and the one checked out ("": detached HEAD)
RepoStates ==
    {r \in [branches : SUBSET Names \ {{}}, current : Names \cup {""}] :
        r.current \in r.branches \cup {""}}

\* the lines of "git branch" in a checkout, each as <<first two
\* characters, rest>>
GitBranchOutput(repo) ==
    LET listed == SelectSeq(SubSeq(BranchPool, 1, MaxBranches),
                            LAMBDA n : n \in repo.branches)
    IN  (IF repo.current = "" THEN << <<"* ", DetachedHead>> >> ELSE <<>>)
        \o [i \in 1..Len(listed) |->
              <<IF listed[i] = repo.current THEN "* " ELSE "  ", listed[i]>>]

\* a python dict: its keys in insertion order and its values
EmptyDict == [keys |-> <<>>, val |-> [k \in {} |-> k]]
HasKey(d, k) == \E i \in 1..Len(d.keys) : d.keys[i] = k
SetItem(d, k, v) ==
    [keys |-> IF HasKey(d, k) THEN d.keys ELSE Append(d.keys, k),
     val  |-> (k :> v) @@ d.val]

\* body of the first loop of get_git_branches
CommunityLine(d, line) ==
    LET active == line[1] = "* "
        branch == line[2]
    IN  SetItem(d, branch, [active |-> active, com |-> active, repo |-> <<"community">>])

\* variant of EnterpriseLine: "active" of a branch known from community
\* is left as community set it
EnterpriseLineKeepsActive(d, line) ==
    LET active == line[1] = "* "
        branch == line[2]
        descr  == IF HasKey(d, branch)
                  THEN [d.val[branch] EXCEPT
                          !.repo = Append(d.val[branch].repo, "enterprise")]
                  ELSE [active |-> active, repo |-> <<"enterprise">>]
    IN  SetItem(d, branch, ("ent" :> active) @@ descr)

\* body of the second loop of get_git_branches
EnterpriseLine(d, line) ==
    LET active == line[1] = "* "
        branch == line[2]
        descr  == IF HasKey(d, branch)
                  THEN [d.val[branch] EXCEPT
                          !.active = d.val[branch].active \/ active,
                          !.repo = Append(d.val[branch].repo, "enterprise")]
                  ELSE [active |-> active, repo |-> <<"enterprise">>]
    IN  SetItem(d, branch, ("ent" :> active) @@ descr)

RECURSIVE CommunityLoop(_, _)
CommunityLoop(d, lines) ==
    IF lines = <<>> THEN d
    ELSE CommunityLoop(CommunityLine(d, Head(lines)), Tail(lines))

RECURSIVE EnterpriseLoop(_, _)
EnterpriseLoop(d, lines) ==
    IF lines = <<>> THEN d
    ELSE EnterpriseLoop(EnterpriseLine(d, Head(lines)), Tail(lines))

\* get_git_branches(), from the output of "git branch" in both checkouts
get_git_branches(com_lines, ent_lines) ==
    EnterpriseLoop(CommunityLoop(EmptyDict, com_lines), ent_lines)

GitBranchCalls == << <<"git", "branch", "community">>, <<"git", "branch", "enterprise">> >>

\* "git branch -D branch" in a checkout: git refuses a branch that does
\* not exist or is checked out
CanDelete(rs, repo, branch) ==
    branch \in rs[repo].branches /\ branch # rs[repo].current

RECURSIVE DeleteLoop(_, _, _)
\* "for repo in descr['repo']: print(run_command(git branch -D))": st is
\* [repos, calls, out, ok]; a failing command raises and ends the loop
DeleteLoop(st, repo_list, branch) ==
    IF repo_list = <<>> THEN st
    ELSE LET repo == Head(repo_list)
             cs   == Append(st.calls, <<"git branch -D", branch, repo>>)
         IN  IF CanDelete(st.repos, repo, branch)
             THEN DeleteLoop(
                    [repos |-> [st.repos EXCEPT ![repo].branches = @ \ {branch}],
                     calls |-> cs,
                     out   |-> Append(st.out, <<"Deleted branch ", branch>>),
                     ok    |-> TRUE],
                    Tail(repo_list), branch)
             ELSE [st EXCEPT !.calls = cs, !.ok = FALSE]

\* input(...) == "y"
should_remove(answer) == answer = "y"

\* branch_cleaner() up to its loop
BranchCleaner ==
    /\ pc = "clean"
    /\ branches' = get_git_branches(GitBranchOutput(repos.community),
                                    GitBranchOutput(repos.enterprise))
    /\ calls' = calls \o GitBranchCalls
    /\ out' = out \o << <<"Branch cleaner tool">>, <<"-------------------">>,
                        <<"Found ", "len(branches.keys())", " branches\n">> >>
    /\ idx' = 1
    /\ pc' = "clean_loop"
    /\ UNCHANGED <<argv, config, local_odoo_args, odoo_args, community_branch, enterprise_branch,
                   db_version, arg_string, child_exit, exit_code, ending, repos>>

\* one iteration of "for branch, descr in branches.items()"
CleanerStep ==
    /\ pc = "clean_loop"
    /\ idx <= Len(branches.keys)
    /\ LET branch == branches.keys[idx]
           descr  == branches.val[branch]
       IN  IF descr.active
           THEN /\ out' = Append(out, <<"skipping '">> \o color(<<branch>>, "cyan")
                                      \o <<"' (currently in use)">>)
                /\ idx' = idx + 1
                /\ UNCHANGED <<pc, calls, repos, exit_code, ending>>
           ELSE \E answer \in Answers :
                  LET asked == Append(calls, <<"input", branch, answer>>)
                      st == DeleteLoop([repos |-> repos, calls |-> asked,
                                        out |-> out, ok |-> TRUE],
                                       descr.repo, branch)
                  IN  IF should_remove(answer)
                      THEN /\ repos' = st.repos
                           /\ calls' = st.calls
                           /\ out' = st.out
                           /\ IF st.ok
                              THEN /\ idx' = idx + 1
                                   /\ UNCHANGED <<pc, exit_code, ending>>
                              ELSE /\ Finish("delete_failed", 1)
                                   /\ UNCHANGED idx
                      ELSE /\ calls' = asked
                           /\ idx' = idx + 1
                           /\ UNCHANGED <<pc, out, repos, exit_code, ending>>
    /\ UNCHANGED <<argv, config, local_odoo_args, odoo_args, community_branch, enterprise_branch,
                   db_version, arg_string, child_exit, branches>>

\* the loop is over: quit()
CleanerQuit ==
    /\ pc = "clean_loop"
    /\ idx > Len(branches.keys)
    /\ Finish("cleaned", 0)
    /\ UNCHANGED <<argv, config, local_odoo_args, odoo_args, community_branch, enterprise_branch,
                   db_version, calls, out, arg_string, child_exit, repos,
                   branches, idx>>

\* descr["com"] and descr["ent"] raise KeyError when the key is missing
StatusKeysPresent(descr) == {"com", "ent"} \subseteq DOMAIN descr

get_branch_status(descr) ==
    LET com == <<IF \E i \in 1..Len(descr.repo) : descr.repo[i] = "community"
                 THEN "X" ELSE " ",
                 IF descr.com THEN "*" ELSE " ">>
        ent == <<IF \E i \in 1..Len(descr.repo) : descr.repo[i] = "enterprise"
                 THEN "X" ELSE " ",
                 IF descr.ent THEN "*" ELSE " ">>
    IN  com \o <<" ">> \o ent

\* number of lines show_branches prints before get_branch_status raises,
\* all of them when it does not
PrintedCount(d) ==
    IF \A i \in 1..Len(d.keys) : StatusKeysPresent(d.val[d.keys[i]])
    THEN Len(d.keys)
    ELSE (CHOOSE i \in 1..Len(d.keys) :
            /\ ~StatusKeysPresent(d.val[d.keys[i]])
            /\ \A j \in 1..(i - 1) : StatusKeysPresent(d.val[d.keys[j]])) - 1

\* show_branches() and the quit() after it
ShowBranches ==
    /\ pc = "list"
    /\ branches' = get_git_branches(GitBranchOutput(repos.community),
                                    GitBranchOutput(repos.enterprise))
    /\ calls' = calls \o GitBranchCalls
    /\ LET n == PrintedCount(branches')
       IN  /\ out' = out \o [i \in 1..n |->
                        get_branch_status(branches'.val[branches'.keys[i]])
                        \o <<" | ", branches'.keys[i]>>]
           /\ IF n = Len(branches'.keys)
              THEN Finish("listed", 0)
              ELSE Finish("key_error", 1)
    /\ UNCHANGED <<argv, config, local_odoo_args, odoo_args, community_branch, enterprise_branch,
                   db_version, arg_string, child_exit, repos, idx>>

\* ------------------------------------------------------------------------
\* Specifications
\* ------------------------------------------------------------------------
RECURSIVE SeqsUpTo(_, _)
\* the sequences over S of length at most n
SeqsUpTo(S, n) ==
    IF n = 0 THEN {<<>>}
    ELSE LET shorter == SeqsUpTo(S, n - 1)
         IN  shorter \cup {Append(s, x) : s \in shorter, x \in S}

DefaultRepos ==
    [r \in Repos |-> [branches |-> {BranchPool[1]}, current |-> BranchPool[1]]]

\* a global name of the module: not bound, or bound to a value
Unbound == [bound |-> FALSE, value |-> <<>>]

InitLocals ==
    /\ config = NoConfig
    /\ local_odoo_args = <<>>
    /\ odoo_args = Unbound
    /\ community_branch = <<>>
    /\ enterprise_branch = <<>>
    /\ db_version = <<>>
    /\ calls = <<>>
    /\ out = <<>>
    /\ arg_string = <<>>
    /\ child_exit = -1
    /\ exit_code = -1
    /\ ending = ""
    /\ branches = EmptyDict
    /\ idx = 0

\* the script is started with some command line
Init ==
    /\ argv \in SeqsUpTo(Tokens, MaxArgs)
    /\ pc = "start"
    /\ repos = DefaultRepos
    /\ InitLocals

Next ==
    \/ ParseArgs
    \/ ShowStatus
    \/ DropDb
    \/ BranchCheck
    \/ FlavorCheck
    \/ AssembleArgs

Spec == Init /\ [][Next]_vars

\* the git tooling: the script is started with --clean-branches or -l in
\* checkouts with some branches
InitGit ==
    /\ argv \in {<<"--clean-branches">>, <<"-l">>, <<"-l", "--clean-branches">>}
    /\ pc = "start"
    /\ repos \in [Repos -> RepoStates]
    /\ InitLocals

NextGit ==
    \/ ParseArgs
    \/ BranchCleaner
    \/ CleanerStep
    \/ CleanerQuit
    \/ ShowBranches

SpecGit == InitGit /\ [][NextGit]_vars

\* configurations main() can hold at line 241
LaunchConfigs ==
    {[ParseNamespace(a) EXCEPT !.test = @ \/ Contains(a, "-w")] :
        a \in SeqsUpTo({"-e", "-t", "-w"}, 3)}

\* start_odoo alone: it is called with some argument string
InitStart ==
    /\ argv = <<>>
    /\ pc = "in_start_odoo"
    /\ repos = DefaultRepos
    /\ config = NoConfig
    /\ local_odoo_args = <<>>
    /\ odoo_args = Unbound
    /\ community_branch = <<>>
    /\ enterprise_branch = <<>>
    /\ db_version = <<>>
    /\ calls = <<>>
    /\ out = <<>>
    /\ arg_string \in {ArgString(c, o) : c \in LaunchConfigs, o \in SeqsUpTo(Tokens, MaxArgs)}
    /\ child_exit = -1
    /\ exit_code = -1
    /\ ending = ""
    /\ branches = EmptyDict
    /\ idx = 0

NextStart == StartOdoo

SpecStart == InitStart /\ [][NextStart]_vars

\* ------------------------------------------------------------------------
\* Vocabulary of the properties
\* ------------------------------------------------------------------------
\* s ends with t
EndsWith(s, t) ==
    /\ Len(t) <= Len(s)
    /\ SubSeq(s, Len(s) - Len(t) + 1, Len(s)) = t
\* position of the first occurrence of atom in s, 0 when absent
FirstIndex(s, atom) ==
    IF Contains(s, atom)
    THEN CHOOSE i \in 1..Len(s) : s[i] = atom /\ \A j \in 1..(i - 1) : s[j] # atom
    ELSE 0

Called(tool) == \E i \in 1..Len(calls) : calls[i][1] = tool
Launched == Called("bash")
Ended == pc = "done"

\* the command line was accepted and asks for a launch (no status, no
\* git tooling)
LaunchRun ==
    /\ pc \notin {"start", "status", "clean", "clean_loop", "list"}
    /\ ending # "usage_error"
    /\ ~config.status /\ ~config.clean_branches /\ ~config.list_branches

\* the command line was accepted and asks for the status report
StatusRun == pc # "start" /\ ending # "usage_error" /\ config.status

DbObserved == db_version # <<>>
DbIsEnterprise == \E i \in 1..Len(db_version) : db_version[i] = " (enterprise)"

\* the branch prompt was answered "n"
Declined ==
    \E i \in 1..Len(calls) :
        calls[i] = <<"input", "do you want to continue? (Y/n) ", "n">>

\* a launch run is over and none of the gates ended it: the drop did not
\* fail, the prompt was not declined, the flavor check did not abort
GatesPassed ==
    /\ LaunchRun /\ Ended
    /\ ending \notin {"drop_failed", "user_cancel", "flavor_error"}

LastLine == out[Len(out)]

\* the tokens of the command line before and after the first "--"
BeforeSeparator == Take(argv, FirstIndex(argv, "--") - 1)
AfterSeparator == Drop(argv, FirstIndex(argv, "--"))

\* addons path handed to the server: the word after "--addons-path "
AddonsPathGiven == arg_string[FirstIndex(arg_string, "--addons-path") + 2]

\* ------------------------------------------------------------------------
\* Properties
\* ------------------------------------------------------------------------
\* C1: a launch run without drop-db whose db flavor differs from the
\* requested one (unknown db = not enterprise) and that was not cancelled
\* at the branch prompt ends in an abort with a non-zero exit code and a
\* message naming the inconsistent side, and never starts the server; when
\* the flavors agree the flavor check does not abort.
C1_FlavorMismatchAborts ==
    (LaunchRun /\ ~config.drop_db /\ DbObserved) =>
        IF DbIsEnterprise # config.enterprise
        THEN /\ Ended
             /\ ending = "flavor_error"
             /\ exit_code # 0
             /\ LastLine = color(<<IF DbIsEnterprise
                  THEN "Error: no enterprise addons requested, but current db is enterprise"
                  ELSE "Error: enterprise addons requested, but current db is not enterprise">>,
                  "red")
             /\ ~Launched
        ELSE ending # "flavor_error"

\* C2: a launch run with drop-db never ends in a flavor mismatch abort,
\* whatever the db looks like; once the drop succeeded and the branch
\* prompt was not declined the run ends by starting the server.
C2_DropSkipsFlavorCheck ==
    (LaunchRun /\ config.drop_db) =>
        /\ ending # "flavor_error"
        /\ (Ended /\ ending # "drop_failed" /\ ~Declined) =>
              (ending = "launched" /\ Launched)

\* C3: a status run drops no database, asks nothing, starts no server
\* and deletes no branch: it only reads (release, git, psql), prints the
\* four lines of the report and exits with code 0.
C3_StatusIsReadOnly ==
    StatusRun =>
        /\ pc \in {"status", "done"}
        /\ \A i \in 1..Len(calls) :
              \/ calls[i][1] \in {"python", "psql"}
              \/ /\ calls[i][1] = "git"
                 /\ calls[i][2] \in {"branch --show-current", "status --porcelain"}
        /\ arg_string = <<>> /\ child_exit = -1
        /\ Ended => (ending = "status" /\ exit_code = 0 /\ Len(out) = 4)

\* C3 witness: a finished status run whose command line also asked for
\* drop-db and enterprise
C3_Witness ==
    StatusRun /\ ending = "status" /\ config.drop_db /\ config.enterprise

\* C4: when the command line has a "--" and the run passes its gates,
\* the server is started with an argument string that ends with the tokens
\* after the first "--", joined by blanks in their order, in test mode or
\* not, and only the tokens before the "--" are read as flags of the
\* script.
C4_PassthroughVerbatim ==
    (GatesPassed /\ Contains(argv, "--")) =>
        /\ ending = "launched"
        /\ EndsWith(arg_string, <<" ">> \o Join(AfterSeparator, " "))
        /\ [config EXCEPT !.test = Contains(BeforeSeparator, "-t")]
              = ParseNamespace(BeforeSeparator)

\* C5: a launch run with web requested that passes its gates starts the
\* server with an argument string that has the test-enable flag, the
\* stop-after-init flag and the web suite tag filter, with -t or without;
\* with neither test nor web requested the string has none of them.
C5_TestFlags ==
    GatesPassed =>
        /\ config.web =>
              /\ ending = "launched"
              /\ Contains(arg_string, "--test-enable")
              /\ Contains(arg_string, "--stop-after-init")
              /\ Contains(arg_string, "--test-tags")
              /\ Contains(arg_string, "/web:WebSuite")
        /\ ~config.test =>
              /\ ending = "launched"
              /\ ~Contains(arg_string, "--test-enable")
              /\ ~Contains(arg_string, "--stop-after-init")
              /\ ~Contains(arg_string, "--test-tags")

\* the run of scenario B: web requested, enterprise not requested, db
\* seen and not enterprise
ScenarioB ==
    /\ LaunchRun /\ Ended
    /\ config.web /\ ~config.enterprise
    /\ DbObserved /\ ~DbIsEnterprise

\* C6: scenario B starts the server with addons path "addons" and an
\* argument string with stop-after-init, then test-enable, then the web
\* suite tag filter.
C6_ScenarioBOrder ==
    ScenarioB =>
        /\ ending = "launched"
        /\ AddonsPathGiven = "addons"
        /\ 0 < FirstIndex(arg_string, "--stop-after-init")
        /\ FirstIndex(arg_string, "--stop-after-init") < FirstIndex(arg_string, "--test-enable")
        /\ FirstIndex(arg_string, "--test-enable") < FirstIndex(arg_string, "--test-tags")

\* C7: a launch run with enterprise requested, different branch names
\* and the prompt answered "n" is over with exit code 0: the prompt was
\* its last step, the db was not queried and the server was not started.
C7_DeclineEndsRun ==
    (LaunchRun /\ config.enterprise /\ community_branch # enterprise_branch /\ Declined) =>
        /\ Ended
        /\ ending = "user_cancel"
        /\ exit_code = 0
        /\ calls[Len(calls)][1] = "input"
        /\ ~Called("psql") /\ ~DbObserved
        /\ ~Launched /\ arg_string = <<>>

\* C7 witness: the prompt was answered "n" after a drop
C7_Witness ==
    /\ LaunchRun /\ config.enterprise /\ config.drop_db /\ Declined
    /\ community_branch # enterprise_branch

CleanerRun == pc \in {"clean", "clean_loop", "done"} /\ config.clean_branches

\* C9: the branch cleaner never deletes, in any checkout, a branch that
\* is checked out in one of the two; it deletes a branch only in a
\* checkout that has it (git refuses any other deletion, and no deletion
\* is refused) and only after the answer "y" for that branch.
C9_CleanerSafety ==
    CleanerRun =>
        /\ ending # "delete_failed"
        /\ \A r \in Repos : repos[r].current \in repos[r].branches \cup {""}
        /\ \A i \in 1..Len(calls) :
              calls[i][1] = "git branch -D" =>
                  /\ \A r \in Repos : calls[i][2] # repos[r].current
                  /\ calls[i][3] \in Repos
                  /\ \E j \in 1..(i - 1) : calls[j] = <<"input", calls[i][2], "y">>
        /\ \A i \in 1..Len(calls) :
              (calls[i][1] = "input" /\ calls[i][3] # "y") =>
                  \A j \in 1..Len(calls) :
                      ~(calls[j][1] = "git branch -D" /\ calls[j][2] = calls[i][2])

\* C9 witness: the cleaner is through, it deleted a branch, and the
\* branch checked out in enterprise is a branch of community that is not
\* checked out there
C9_Witness ==
    /\ CleanerRun /\ ending = "cleaned"
    /\ Called("git branch -D")
    /\ repos.enterprise.current \in repos.community.branches
    /\ repos.enterprise.current # repos.community.current

\* the lines "git branch" prints in a checkout, and the names on them
Lines(r) == {GitBranchOutput(repos[r])[i] : i \in 1..Len(GitBranchOutput(repos[r]))}
Listed(r) == {l[2] : l \in Lines(r)}

\* the line of list-branches for a name
ExpectedLine(b) ==
    <<IF b \in Listed("community") THEN "X" ELSE " ",
      IF <<"* ", b>> \in Lines("community") THEN "*" ELSE " ",
      " ",
      IF b \in Listed("enterprise") THEN "X" ELSE " ",
      IF <<"* ", b>> \in Lines("enterprise") THEN "*" ELSE " ",
      " | ", b>>

\* C10: list-branches ends without error and prints exactly one line per
\* listed name, with the marks of the checkouts that have the branch (X)
\* and have it checked out (*).
C10_ListBranchesComplete ==
    (Ended /\ config.list_branches /\ ~config.clean_branches) =>
        /\ ending = "listed" /\ exit_code = 0
        /\ Len(out) = Cardinality(Listed("community") \cup Listed("enterprise"))
        /\ \A b \in Listed("community") \cup Listed("enterprise") :
              Cardinality({i \in 1..Len(out) : out[i] = ExpectedLine(b)}) = 1

====
